---- MODULE Spec2Model ----
(***************************************************************************)
(* SideStore Source Maker: the repository-export pipeline of types.ts      *)
(* (version comparator, compatibility filter, deduplicator, export         *)
(* normaliser) and the handlers of the publish dialog that call it.        *)
(*                                                                         *)
(* A JavaScript string is a sequence of one-character strings, so that     *)
(* toLowerCase, trim, split and the regular expressions act on characters. *)
(* An app record is a function from field names to values; an optional     *)
(* field that is absent is a name outside the record's DOMAIN.             *)
(***************************************************************************)
EXTENDS Integers, Sequences, FiniteSets, TLC

VARIABLES
    repo,           \* PublishManager's repo prop: the editor's in-memory document
    exportConfig,   \* PublishManager's exportConfig state
    finalRepo,      \* the local finalRepo of a running copyJsonToClipboard, NoDoc when none runs
    versions,       \* the arguments <<v1, v2>> of the compareVersions call under observation
    returned,       \* <<value>> once that call has returned, NoResult before
    dialog,         \* PublishManager's state: token, loading, error, successMsg, history, mode, targetGistId
    storage,        \* localStorage: the items 'gh_token' and 'deploy_history'
    requests,       \* the fetches of processDeploy that have not been answered yet
    showPublishModal, \* App's showPublishModal: PublishManager is mounted
    gistCount,      \* GitHub: the number of gists the account has created since Init
    clipboard,      \* navigator.clipboard: the manifest last copied by the editor, NoDoc when none
    jsonInput,      \* ImportModal's jsonInput: the manifest in the text area, NoDoc when empty
    previewRepo,    \* ImportModal's previewRepo, NoDoc for null
    generated       \* the number of ids that generateId and Math.random have given out

publishVars == <<dialog, storage, requests, showPublishModal, gistCount>>

importVars == <<clipboard, jsonInput, previewRepo, generated>>

vars == <<repo, exportConfig, finalRepo, versions, returned, publishVars, importVars>>

----------------------------------------------------------------------------
(* Characters and strings *)

UpperChars == <<"A","B","C","D","E","F","G","H","I","J","K","L","M",
                "N","O","P","Q","R","S","T","U","V","W","X","Y","Z">>
LowerChars == <<"a","b","c","d","e","f","g","h","i","j","k","l","m",
                "n","o","p","q","r","s","t","u","v","w","x","y","z">>
DigitChars == <<"0","1","2","3","4","5","6","7","8","9">>
WhiteSpace == {" ", "\t", "\n", "\r"}

Range(s) == {s[i] : i \in DOMAIN s}

LowerOf(c) ==
    IF c \in Range(UpperChars)
    THEN LowerChars[CHOOSE j \in DOMAIN UpperChars : UpperChars[j] = c]
    ELSE c

\* String.prototype.toLowerCase
toLowerCase(s) == [i \in DOMAIN s |-> LowerOf(s[i])]

RECURSIVE TrimStart(_)
TrimStart(s) ==
    IF s # <<>> /\ Head(s) \in WhiteSpace THEN TrimStart(Tail(s)) ELSE s

RECURSIVE TrimEnd(_)
TrimEnd(s) ==
    IF s # <<>> /\ s[Len(s)] \in WhiteSpace
    THEN TrimEnd(SubSeq(s, 1, Len(s) - 1))
    ELSE s

\* String.prototype.trim
trim(s) == TrimEnd(TrimStart(s))

\* s.split('.'): the pieces between the dots, empty pieces included
RECURSIVE SplitAcc(_, _, _)
SplitAcc(s, cur, acc) ==
    IF s = <<>> THEN Append(acc, cur)
    ELSE IF Head(s) = "." THEN SplitAcc(Tail(s), <<>>, Append(acc, cur))
    ELSE SplitAcc(Tail(s), Append(cur, Head(s)), acc)

split(s) == SplitAcc(s, <<>>, <<>>)

\* the value parseInt gives for "no leading digit"
NaN == -1

DigitVal(c) == (CHOOSE j \in DOMAIN DigitChars : DigitChars[j] = c) - 1

RECURSIVE ParseDigits(_, _)
ParseDigits(s, acc) ==
    IF s = <<>> \/ Head(s) \notin Range(DigitChars) THEN acc
    ELSE ParseDigits(Tail(s), 10 * acc + DigitVal(Head(s)))

\* parseInt(n): the decimal value of the leading digits, NaN when there is none
parseInt(s) ==
    LET t == TrimStart(s)
    IN  IF t = <<>> \/ Head(t) \notin Range(DigitChars) THEN NaN
        ELSE ParseDigits(t, 0)

\* The collation rank of a character in String.prototype.localeCompare:
\* white space, then punctuation, then digits, then letters in alphabetical order.
CollationOrder ==
    <<" ", "\t", "\n", "\r", "_", "-", ",", ";", ":", "!", "?", ".", "+">>
        \o DigitChars \o LowerChars

Rank(c) ==
    LET l == LowerOf(c)
    IN  IF l \in Range(CollationOrder)
        THEN CHOOSE j \in DOMAIN CollationOrder : CollationOrder[j] = l
        ELSE 0

\* the first-level comparison of localeCompare: letter by letter, case set aside
RECURSIVE PrimaryCompare(_, _)
PrimaryCompare(s1, s2) ==
    IF s1 = <<>> /\ s2 = <<>> THEN 0
    ELSE IF s1 = <<>> THEN -1
    ELSE IF s2 = <<>> THEN 1
    ELSE IF Rank(Head(s1)) < Rank(Head(s2)) THEN -1
    ELSE IF Rank(Head(s1)) > Rank(Head(s2)) THEN 1
    ELSE PrimaryCompare(Tail(s1), Tail(s2))

\* the tie-break of localeCompare between strings that differ in letter case only: at
\* the first difference the lower-case letter sorts first
RECURSIVE CaseCompare(_, _)
CaseCompare(s1, s2) ==
    IF s1 = <<>> \/ s2 = <<>> THEN 0
    ELSE IF Head(s1) = Head(s2) THEN CaseCompare(Tail(s1), Tail(s2))
    ELSE IF Head(s1) \in Range(LowerChars) THEN -1
    ELSE 1

\* s1.localeCompare(s2), as the engines return it: -1, 0 or 1
localeCompare(s1, s2) ==
    IF PrimaryCompare(s1, s2) # 0 THEN PrimaryCompare(s1, s2) ELSE CaseCompare(s1, s2)

----------------------------------------------------------------------------
(* compareVersions *)

\* clean: (v || "").replace(/^v/i, '').trim()
clean(v) ==
    trim(IF v # <<>> /\ Head(v) \in {"v", "V"} THEN Tail(v) ELSE v)

\* s.replace(/[^0-9.]/g, '')
DigitsAndDots(s) == SelectSeq(s, LAMBDA c : c \in Range(DigitChars) \cup {"."})

\* s.replace(/[^0-9.]/g, '').split('.').map(n => parseInt(n)).filter(n => !isNaN(n))
NumericSegments(s) ==
    LET pieces == split(DigitsAndDots(s))
        parsed == [i \in DOMAIN pieces |-> parseInt(pieces[i])]
    IN  SelectSeq(parsed, LAMBDA n : n # NaN)

\* n[i] || 0, for the zero-based index i of the loop
SegmentOrZero(n, i) == IF i + 1 \in DOMAIN n THEN n[i + 1] ELSE 0

RECURSIVE CompareSegments(_, _, _, _)
CompareSegments(n1, n2, i, len) ==
    IF i >= len THEN 0
    ELSE IF SegmentOrZero(n1, i) > SegmentOrZero(n2, i) THEN 1
    ELSE IF SegmentOrZero(n1, i) < SegmentOrZero(n2, i) THEN -1
    ELSE CompareSegments(n1, n2, i + 1, len)

\* Max taking the shorter length: the loop stops at the end of the shorter sequence
Max_Shorter(a, b) == IF a <= b THEN a ELSE b

\* Math.max
Max(a, b) == IF a >= b THEN a ELSE b

\* compareVersions falling back to localeCompare as soon as either side has no numeric segment
compareVersions_FallbackIfEither(v1, v2) ==
    LET s1 == clean(v1)
        s2 == clean(v2)
        n1 == NumericSegments(s1)
        n2 == NumericSegments(s2)
    IN  IF s1 = s2 THEN 0
        ELSE IF Len(n1) = 0 \/ Len(n2) = 0 THEN localeCompare(s1, s2)
        ELSE CompareSegments(n1, n2, 0, Max(Len(n1), Len(n2)))

\* compareVersions written as a two-way comparator: it answers -1 or 1, never 0
compareVersions_NoTie(v1, v2) ==
    LET s1 == clean(v1)
        s2 == clean(v2)
        n1 == NumericSegments(s1)
        n2 == NumericSegments(s2)
    IN  IF Len(n1) = 0 /\ Len(n2) = 0
        THEN (IF localeCompare(s1, s2) < 0 THEN -1 ELSE 1)
        ELSE (IF CompareSegments(n1, n2, 0, Max(Len(n1), Len(n2))) < 0 THEN -1 ELSE 1)

compareVersions(v1, v2) ==
    LET s1 == clean(v1)
        s2 == clean(v2)
        n1 == NumericSegments(s1)
        n2 == NumericSegments(s2)
    IN  IF s1 = s2 THEN 0
        ELSE IF Len(n1) = 0 /\ Len(n2) = 0 THEN localeCompare(s1, s2)
        ELSE CompareSegments(n1, n2, 0, Max(Len(n1), Len(n2)))

----------------------------------------------------------------------------
(* getFilteredApps and processRepoForExport *)

\* IncompatibleKinds without 'jit_required'
IncompatibleKinds_NoJit == {"jailbreak_only", "trollstore_only"}

\* the array literal of the filter callback
IncompatibleKinds == {"jailbreak_only", "trollstore_only", "jit_required"}

\* IsCompatible with a record kept only when it carries a status outside the three kinds
IsCompatible_AbsentDropped(app) ==
    /\ "compatibilityStatus" \in DOMAIN app
    /\ app.compatibilityStatus \notin IncompatibleKinds

\* the callback of processed.filter: an absent, empty or 'unknown' status is kept
IsCompatible(app) ==
    IF /\ "compatibilityStatus" \in DOMAIN app
       /\ app.compatibilityStatus # ""
       /\ app.compatibilityStatus # "unknown"
    THEN app.compatibilityStatus \notin IncompatibleKinds
    ELSE TRUE

\* DedupKey keyed by the name alone
DedupKey_NameOnly(app) == toLowerCase(app.name)

\* DedupKey without the lower-casing
DedupKey_CaseSensitive(app) ==
    IF "bundleIdentifier" \in DOMAIN app /\ app.bundleIdentifier # <<>>
    THEN app.bundleIdentifier
    ELSE app.name

\* app.bundleIdentifier?.toLowerCase() || app.name.toLowerCase()
DedupKey(app) ==
    LET b == IF "bundleIdentifier" \in DOMAIN app
             THEN toLowerCase(app.bundleIdentifier)
             ELSE <<>>
    IN  IF b # <<>> THEN b ELSE toLowerCase(app.name)

\* A Map is the sequence of its entries in insertion order.
MapHas(m, key) == \E j \in DOMAIN m : m[j].key = key

MapGet(m, key) == m[CHOOSE j \in DOMAIN m : m[j].key = key].value

\* MapSet as delete-then-set: a key that is set again moves to the end
MapSet_MoveToEnd(m, key, value) ==
    Append(SelectSeq(m, LAMBDA e : e.key # key), [key |-> key, value |-> value])

\* Map.prototype.set: a new key is appended, an existing key keeps its place
MapSet(m, key, value) ==
    IF MapHas(m, key)
    THEN [j \in DOMAIN m |-> IF m[j].key = key THEN [key |-> key, value |-> value] ELSE m[j]]
    ELSE Append(m, [key |-> key, value |-> value])

\* MapValues listing the newest slot first
MapValues_NewestFirst(m) == [j \in DOMAIN m |-> m[Len(m) + 1 - j].value]

\* Array.from(m.values())
MapValues(m) == [j \in DOMAIN m |-> m[j].value]

\* Replaces with > 0 for >= 0: the earlier record wins a tie
Replaces_StrictlyGreater(apps, ref, latestMap) ==
    LET key == DedupKey(apps[ref])
    IN  \/ ~MapHas(latestMap, key)
        \/ compareVersions(apps[ref].version, apps[MapGet(latestMap, key)].version) > 0

\* One step of processed.forEach: does the record referenced by ref take its key's slot?
Replaces(apps, ref, latestMap) ==
    LET key == DedupKey(apps[ref])
    IN  \/ ~MapHas(latestMap, key)
        \/ compareVersions(apps[ref].version, apps[MapGet(latestMap, key)].version) >= 0

\* processed.forEach(...) over the record objects of processed, in order
RECURSIVE DedupWalk(_, _, _)
DedupWalk(apps, processed, latestMap) ==
    IF processed = <<>> THEN latestMap
    ELSE LET ref == Head(processed)
         IN  DedupWalk(apps, Tail(processed),
                       IF Replaces(apps, ref, latestMap)
                       THEN MapSet(latestMap, DedupKey(apps[ref]), ref)
                       ELSE latestMap)

\* getFilteredApps with the two stages in the other order: deduplicate, then filter
getFilteredApps_DedupFirst(apps, config) ==
    LET all == [i \in DOMAIN apps |-> i]
        deduped == IF config.deduplicate
                   THEN MapValues(DedupWalk(apps, all, <<>>))
                   ELSE all
    IN  IF config.filterIncompatible
        THEN SelectSeq(deduped, LAMBDA ref : IsCompatible(apps[ref]))
        ELSE deduped

\* getFilteredApps filtering whatever config.filterIncompatible says
getFilteredApps_AlwaysFilter(apps, config) ==
    LET all == [i \in DOMAIN apps |-> i]
        processed == SelectSeq(all, LAMBDA ref : IsCompatible(apps[ref]))
    IN  IF ~config.deduplicate THEN processed
        ELSE MapValues(DedupWalk(apps, processed, <<>>))

\* getFilteredApps deduplicating whatever config.deduplicate says
getFilteredApps_AlwaysDedup(apps, config) ==
    LET all == [i \in DOMAIN apps |-> i]
        processed == IF config.filterIncompatible
                     THEN SelectSeq(all, LAMBDA ref : IsCompatible(apps[ref]))
                     ELSE all
    IN  MapValues(DedupWalk(apps, processed, <<>>))

\* getFilteredApps returns record objects of its argument, never copies: the result
\* is the sequence of their positions in apps (a record object is named by its position).
getFilteredApps(apps, config) ==
    LET all == [i \in DOMAIN apps |-> i]
        processed == IF config.filterIncompatible
                     THEN SelectSeq(all, LAMBDA ref : IsCompatible(apps[ref]))
                     ELSE all
    IN  IF ~config.deduplicate /\ ~config.filterIncompatible THEN all
        ELSE IF ~config.deduplicate THEN processed
        ELSE MapValues(DedupWalk(apps, processed, <<>>))

\* PruneScreenshots without the trim: only the empty string is dropped
PruneScreenshots_EmptyOnly(urls) == SelectSeq(urls, LAMBDA u : u # <<>>)

\* rest.screenshotURLs.filter(u => u && u.trim() !== "")
PruneScreenshots(urls) == SelectSeq(urls, LAMBDA u : u # <<>> /\ trim(u) # <<>>)

\* ExportApp without the destructuring that sets compatibilityStatus aside
ExportApp_KeepsStatus(app) ==
    [f \in DOMAIN app |->
        IF f = "screenshotURLs" THEN PruneScreenshots(app.screenshotURLs) ELSE app[f]]

\* ExportApp setting the internal id aside together with compatibilityStatus
ExportApp_DropsId(app) ==
    LET restKeys == DOMAIN app \ {"compatibilityStatus", "id"}
    IN  [f \in restKeys \cup {"screenshotURLs"} |->
            IF f = "screenshotURLs" THEN PruneScreenshots(app.screenshotURLs) ELSE app[f]]

\* ({ compatibilityStatus, ...rest }) => ({ ...rest, screenshotURLs: ... })
ExportApp(app) ==
    LET restKeys == DOMAIN app \ {"compatibilityStatus"}
    IN  [f \in restKeys \cup {"screenshotURLs"} |->
            IF f = "screenshotURLs" THEN PruneScreenshots(app.screenshotURLs) ELSE app[f]]

\* { ...repo, apps: processedApps.map(...) }: a new document
processRepoForExport(r, config) ==
    LET processedApps == getFilteredApps(r.apps, config)
    IN  [f \in DOMAIN r \cup {"apps"} |->
            IF f = "apps"
            THEN [k \in DOMAIN processedApps |-> ExportApp(r.apps[processedApps[k]])]
            ELSE r[f]]

----------------------------------------------------------------------------
(* The documents the publish dialog is opened on *)

\* the longest apps list of an initial document
MaxApps == 3

\* bundle identifiers, names, versions and screenshot URLs, as character sequences
EmptyStr == <<>>
BidX     == <<"c", ".", "x">>
BidXUp   == <<"C", ".", "X">>
NameApp  == <<"A", "p", "p">>
NameLow  == <<"a", "p", "p">>
NameOther == <<"O", "t">>
V10  == <<"1", ".", "0">>
V20  == <<"2", ".", "0">>
Vv20 == <<"v", "2", ".", "0">>
V0   == <<"0">>
Va   == <<"a">>
Vb   == <<"b">>
Url1 == <<"h", "/", "1">>
Url2 == <<"h", "/", "2">>
Blank == <<" ">>

\* DEFAULT_APP with the fields the pipeline reads filled in; status "absent" leaves the
\* optional compatibilityStatus out of the record
Shape(bid, name, version, status, shots) ==
    LET base == [id |-> "default",
                 name |-> name,
                 bundleIdentifier |-> bid,
                 developerName |-> "Developer Name",
                 version |-> version,
                 versionDate |-> "2024-01-01",
                 versionDescription |-> "Initial release",
                 downloadURL |-> "",
                 localizedDescription |-> "Description of the app...",
                 iconURL |-> "",
                 tintColor |-> "#3b82f6",
                 size |-> 0,
                 category |-> "Utilities",
                 screenshotURLs |-> shots]
    IN  IF status = "absent" THEN base
        ELSE [f \in DOMAIN base \cup {"compatibilityStatus"} |->
                 IF f = "compatibilityStatus" THEN status ELSE base[f]]

\* The records an initial document is drawn from: one key in five versions, the same key
\* in the other letter case flagged incompatible, the name fallback in two letter cases,
\* the empty key, and a name that spells another record's bundle identifier.
AppPool ==
    { Shape(BidX, NameApp, V10, "safe", <<Url1>>),
      Shape(BidX, NameApp, V20, "unknown", <<EmptyStr, Url1>>),
      Shape(BidX, NameApp, V0, "absent", <<>>),
      Shape(BidX, NameApp, Va, "safe", <<Url1, Blank, Url2>>),
      Shape(BidX, NameOther, Vb, "safe", <<Blank>>),
      Shape(BidXUp, NameOther, Vv20, "jailbreak_only", <<Url2, EmptyStr>>),
      Shape(BidXUp, NameOther, V10, "trollstore_only", <<>>),
      Shape(EmptyStr, NameApp, V10, "safe", <<Url2, Url1>>),
      Shape(EmptyStr, NameLow, V20, "unknown", <<>>),
      Shape(EmptyStr, NameLow, V10, "jit_required", <<Blank, Url1>>),
      Shape(EmptyStr, EmptyStr, V20, "absent", <<Url1, EmptyStr, Url2>>),
      Shape(EmptyStr, BidX, V20, "safe", <<EmptyStr>>) }

\* generateId gives every record of the editor its own id
IdOf == <<"A", "B", "C", "D", "E">>

WithIds(shapes) == [i \in DOMAIN shapes |-> [shapes[i] EXCEPT !.id = IdOf[i]]]

DEFAULT_REPO ==
    [name |-> "My Repo",
     subtitle |-> "A collection of apps",
     description |-> "Welcome to my repository.",
     iconURL |-> "",
     headerImageURL |-> "",
     website |-> "",
     tintColor |-> "#3b82f6",
     apps |-> <<>>]

\* SAMPLE_REPOS["Emulators Pack"]
SAMPLE_REPO ==
    [DEFAULT_REPO EXCEPT
        !.name = "Retro Gaming",
        !.subtitle = "Classic Consoles",
        !.description = "The best emulators for iOS, ready to sideload.",
        !.apps = <<
            [Shape(<<"c","o","m",".","r","i","l","e","y","t","e","s","t","u","t",".","D","e","l","t","a">>,
                   <<"D","e","l","t","a">>, <<"1",".","5",".","1">>, "safe", <<>>)
                EXCEPT !.id = "delta-sample",
                       !.developerName = "Riley Testut",
                       !.localizedDescription = "The definitive all-in-one emulator for iPhone.",
                       !.iconURL = "https://github.com/rileytestut/Delta/raw/main/Assets/AppIcon.png",
                       !.tintColor = "#6d28d9",
                       !.category = "Games"],
            [Shape(<<"c","o","m",".","p","r","o","v","e","n","a","n","c","e","-","e","m","u",".",
                     "p","r","o","v","e","n","a","n","c","e">>,
                   <<"P","r","o","v","e","n","a","n","c","e">>, <<"2",".","2",".","0">>, "safe", <<>>)
                EXCEPT !.id = "provenance-sample",
                       !.developerName = "Provenance Emu",
                       !.localizedDescription = "Multi-system emulator frontend supporting Atari, Sega, Nintendo, Sony and more.",
                       !.iconURL = "https://github.com/Provenance-Emu/Provenance/raw/develop/Provenance/Assets.xcassets/AppIcon.appiconset/Icon-60@3x.png",
                       !.tintColor = "#10b981",
                       !.category = "Games"] >>]

NoDoc == [none |-> TRUE]

\* the call has not returned; once it has, returned is the one-element sequence of its value
NoResult == <<>>

Configs == [deduplicate : BOOLEAN, filterIncompatible : BOOLEAN]

----------------------------------------------------------------------------
(* The publish dialog *)

\* useState initial values of PublishManager (lines 12-23), nothing stored, nothing in flight
UnmountedDialog ==
    [token |-> <<>>, loading |-> FALSE, error |-> "null", successMsg |-> "null",
     history |-> <<>>, mode |-> "create", targetGistId |-> <<>>]

\* the publish dialog has not been used
PublishIdle ==
    /\ dialog = UnmountedDialog
    /\ storage = [gh_token |-> <<>>, deploy_history |-> <<>>]
    /\ requests = {}
    /\ showPublishModal = TRUE
    /\ gistCount = 0

\* the import modal is closed and nothing has been copied
ImportIdle ==
    /\ clipboard = NoDoc
    /\ jsonInput = NoDoc
    /\ previewRepo = NoDoc
    /\ generated = 0

\* PublishManager mounts on the editor's document, a draft or the sample repository, with
\* initialConfig, App's exportConfig
Init ==
    /\ \/ \E n \in 0..MaxApps : \E shapes \in [1..n -> AppPool] :
              repo = [DEFAULT_REPO EXCEPT !.apps = WithIds(shapes)]
       \/ repo = SAMPLE_REPO
    /\ exportConfig = [deduplicate |-> TRUE, filterIncompatible |-> TRUE]
    /\ finalRepo = NoDoc
    /\ versions = <<EmptyStr, EmptyStr>>
    /\ returned = NoResult
    /\ PublishIdle
    /\ ImportIdle

\* "Latest Only" / "Archive All": setExportConfig(c => ({ ...c, deduplicate: b }))
SetDeduplicate(b) ==
    /\ finalRepo = NoDoc
    /\ exportConfig' = [exportConfig EXCEPT !.deduplicate = b]
    /\ UNCHANGED <<repo, finalRepo, versions, returned, publishVars, importVars>>

\* "Filter Jailbreak Apps": setExportConfig(c => ({ ...c, filterIncompatible: !c.filterIncompatible }))
ToggleFilterIncompatible ==
    /\ finalRepo = NoDoc
    /\ exportConfig' = [exportConfig EXCEPT !.filterIncompatible = ~exportConfig.filterIncompatible]
    /\ UNCHANGED <<repo, finalRepo, versions, returned, publishVars, importVars>>

\* CopyJsonExport with the export writing its result into the document it was given
CopyJsonExport_InPlace ==
    /\ finalRepo = NoDoc
    /\ finalRepo' = processRepoForExport(repo, exportConfig)
    /\ repo' = processRepoForExport(repo, exportConfig)
    /\ UNCHANGED <<exportConfig, versions, returned, publishVars, importVars>>

\* copyJsonToClipboard, its first statement: finalRepo = processRepoForExport(repo, exportConfig)
CopyJsonExport ==
    /\ finalRepo = NoDoc
    /\ finalRepo' = processRepoForExport(repo, exportConfig)
    /\ UNCHANGED <<repo, exportConfig, versions, returned, publishVars, importVars>>

\* copyJsonToClipboard, the rest: the text is written to the clipboard and the handler returns
CopyJsonReturn ==
    /\ finalRepo # NoDoc
    /\ finalRepo' = NoDoc
    /\ UNCHANGED <<repo, exportConfig, versions, returned, publishVars, importVars>>

Next ==
    \/ \E b \in BOOLEAN : SetDeduplicate(b)
    \/ ToggleFilterIncompatible
    \/ CopyJsonExport
    \/ CopyJsonReturn

Spec == Init /\ [][Next]_vars

----------------------------------------------------------------------------
(* compareVersions on its own, and within the deduplication of two records of one key *)

MaxVersionLen == 2

\* characters of a version field: digits, the dot, the v prefix, a letter, a blank
VersionChars == {"0", "1", ".", "v", "a", " "}

RECURSIVE StringsUpTo(_)
StringsUpTo(n) ==
    IF n = 0 THEN {<<>>}
    ELSE LET shorter == StringsUpTo(n - 1)
         IN  shorter \cup {Append(s, c) : s \in shorter, c \in VersionChars}

\* version strings as manifests carry them
SampleVersions ==
    { <<"1",".","0">>, <<"1",".","0",".","0">>, <<"2",".","0">>, <<"1",".","9">>,
      <<"v","2",".","0">>, <<"V","2",".","0">>, <<" ","v","2",".","0">>,
      <<"1",".","0",".","1">>, <<"0",".","0">>, <<"1",".","0","-","b","2">>,
      <<"b","e","t","a">>, <<"v","b","e","t","a">>, <<" ","v","b","e","t","a">>,
      <<"V","b","e","t","a">>, <<"a","l","p","h","a">> }

VersionStrings == StringsUpTo(MaxVersionLen) \cup SampleVersions

\* a document whose two apps are releases of one bundleIdentifier with the two versions
PairRepo(vs) ==
    [DEFAULT_REPO EXCEPT !.apps =
        WithIds(<<Shape(BidX, NameApp, vs[1], "safe", <<Url1>>),
                  Shape(BidX, NameApp, vs[2], "safe", <<Url1>>)>>)]

InitCompare ==
    /\ versions \in VersionStrings \X VersionStrings
    /\ returned = NoResult
    /\ repo = PairRepo(versions)
    /\ exportConfig = [deduplicate |-> TRUE, filterIncompatible |-> TRUE]
    /\ finalRepo = NoDoc
    /\ PublishIdle
    /\ ImportIdle

\* the call compareVersions(v1, v2)
CompareVersions ==
    /\ returned = NoResult
    /\ returned' = <<compareVersions(versions[1], versions[2])>>
    /\ UNCHANGED <<repo, exportConfig, finalRepo, versions, publishVars, importVars>>

NextCompare ==
    \/ CompareVersions
    \/ CopyJsonExport
    \/ CopyJsonReturn

SpecCompare == InitCompare /\ [][NextCompare]_vars

----------------------------------------------------------------------------
(* compareVersions on the three pairs of three versions *)

\* versions of the kinds the comparator tells apart: numeric, all-zero, alphabetic, empty
OrderVersions == {V10, V20, Vv20, V0, <<"0", ".", "0">>, Va, Vb, EmptyStr}

InitOrder ==
    /\ versions \in OrderVersions \X OrderVersions \X OrderVersions
    /\ returned = NoResult
    /\ repo = DEFAULT_REPO
    /\ exportConfig = [deduplicate |-> TRUE, filterIncompatible |-> TRUE]
    /\ finalRepo = NoDoc
    /\ PublishIdle
    /\ ImportIdle

\* the calls compareVersions(a, b), compareVersions(b, c) and compareVersions(a, c)
CompareEachPair ==
    /\ returned = NoResult
    /\ returned' = << compareVersions(versions[1], versions[2]),
                      compareVersions(versions[2], versions[3]),
                      compareVersions(versions[1], versions[3]) >>
    /\ UNCHANGED <<repo, exportConfig, finalRepo, versions, publishVars, importVars>>

NextOrder == CompareEachPair

SpecOrder == InitOrder /\ [][NextOrder]_vars

----------------------------------------------------------------------------
(* The publish dialog: extractGistId and processDeploy *)

MaxGists == 2

\* the fetches followed at a time
MaxInFlight == 2

\* the length of a standard gist id, the {32} of /[0-9a-f]{32}/i
GistIdLength == 32

\* the length of a commit hash
CommitLength == 40

HexChars == Range(DigitChars) \cup {"a", "b", "c", "d", "e", "f", "A", "B", "C", "D", "E", "F"}

\* clean.match(/[0-9a-f]{32}/i): the leftmost run of 32 hex characters, <<>> for null
HexMatch(s) ==
    LET starts == {p \in 1..(Len(s) - GistIdLength + 1) :
                      \A q \in p..(p + GistIdLength - 1) : s[q] \in HexChars}
    IN  IF starts = {} THEN <<>>
        ELSE LET p == CHOOSE p \in starts : \A q \in starts : p <= q
             IN  SubSeq(s, p, p + GistIdLength - 1)

\* s.split(sep) for a one-character separator
RECURSIVE SplitOnAcc(_, _, _, _)
SplitOnAcc(s, sep, cur, acc) ==
    IF s = <<>> THEN Append(acc, cur)
    ELSE IF Head(s) = sep THEN SplitOnAcc(Tail(s), sep, <<>>, Append(acc, cur))
    ELSE SplitOnAcc(Tail(s), sep, Append(cur, Head(s)), acc)

SplitOn(s, sep) == SplitOnAcc(s, sep, <<>>, <<>>)

RawWord == <<"r","a","w">>

\* extractGistId; the input is never made of slashes only
extractGistId(input) ==
    LET cleaned == trim(input)
        hexMatch == HexMatch(cleaned)
        parts == SelectSeq(SplitOn(cleaned, "/"), LAMBDA p : Len(p) > 0)
        raws == {i \in DOMAIN parts : parts[i] = RawWord}
        rawIndex == IF raws = {} THEN -1 ELSE (CHOOSE i \in raws : \A j \in raws : i <= j) - 1
        last == parts[Len(parts)]
    IN  IF hexMatch # <<>> THEN hexMatch
        ELSE IF "/" \in Range(cleaned)
             THEN IF rawIndex > 0 THEN parts[rawIndex]
                  ELSE IF "." \in Range(last) /\ Len(parts) > 1 THEN parts[Len(parts) - 1]
                  ELSE last
        ELSE cleaned

\* GitHub: the account, the ids it gives to gists, the hash of a revision
GistUser == <<"o","c","t","o">>

\* the id of the n-th gist created: 32 hex characters
GistId(n) == [i \in 1..GistIdLength |-> IF i = GistIdLength THEN DigitChars[n + 1] ELSE "a"]

\* the id of a gist of the account that dates from before the 32-character ids
LegacyGistId == <<"5","6","2","3","2","6","9">>

CommitSha == [i \in 1..CommitLength |-> IF i % 2 = 1 THEN "c" ELSE "0"]

\* data.files['repo.json'].raw_url
RawUrl(id) ==
    <<"h","t","t","p","s",":","/","/","g","i","s","t",".","g","i","t","h","u","b","u","s","e","r","c","o","n","t","e","n","t",".","c","o","m","/">> \o GistUser \o <<"/">> \o id \o <<"/","r","a","w","/">> \o CommitSha \o <<"/","r","e","p","o",".","j","s","o","n">>

\* the address of the gist's page
PageUrl(id) == <<"h","t","t","p","s",":","/","/","g","i","s","t",".","g","i","t","h","u","b",".","c","o","m","/">> \o GistUser \o <<"/">> \o id

\* newDeployment (lines 117-123); the clock is not modelled
Deployment(id, name) ==
    [id |-> id, url |-> RawUrl(id), createdAt |-> "now", type |-> "public", name |-> name]

Tokens == {<<>>, <<"g", "h", "p">>}

\* the gists of the account: the old one and those created since Init
Gists == {LegacyGistId} \cup {GistId(n) : n \in 1..gistCount}

\* the ids of the gists of the account that the dialog knows of
KnownGists(history) == {LegacyGistId} \cup {history[i].id : i \in DOMAIN history}

\* what a user pastes into the target field: nothing, a gist's id, its raw URL, its page URL
TargetInputs(history) ==
    {<<>>} \cup UNION {{id, RawUrl(id), PageUrl(id)} : id \in KnownGists(history)}

\* what a session of the dialog leaves under 'deploy_history'
SavedHistories == {<<>>, <<Deployment(LegacyGistId, "My Repo")>>}

\* the dialog after its mount effect: token and history as the last session left them
InitPublish ==
    /\ repo = SAMPLE_REPO
    /\ exportConfig = [deduplicate |-> TRUE, filterIncompatible |-> TRUE]
    /\ finalRepo = NoDoc
    /\ versions = <<EmptyStr, EmptyStr>>
    /\ returned = NoResult
    /\ ImportIdle
    /\ storage \in [gh_token : Tokens, deploy_history : SavedHistories]
    /\ dialog = [UnmountedDialog EXCEPT !.token = storage.gh_token,
                                        !.history = storage.deploy_history]
    /\ requests = {}
    /\ showPublishModal = TRUE
    /\ gistCount = 0

\* setShowPublishModal(true): PublishManager mounts and its effect reads localStorage
OpenPublish ==
    /\ ~showPublishModal
    /\ showPublishModal' = TRUE
    /\ dialog' = [UnmountedDialog EXCEPT !.token = storage.gh_token,
                                         !.history = storage.deploy_history]
    /\ UNCHANGED <<repo, exportConfig, finalRepo, versions, returned, storage, requests,
                   gistCount, importVars>>

\* the dialog's close button, enabled while loading too: PublishManager unmounts, its
\* fetches go on and their continuations keep the state they captured
ClosePublish ==
    /\ showPublishModal
    /\ showPublishModal' = FALSE
    /\ dialog' = UnmountedDialog
    /\ requests' = {[r EXCEPT !.live = FALSE] : r \in requests}
    /\ UNCHANGED <<repo, exportConfig, finalRepo, versions, returned, storage, gistCount,
                   importVars>>

\* the token field: setToken(e.target.value)
SetToken(t) ==
    /\ showPublishModal
    /\ dialog' = [dialog EXCEPT !.token = t]
    /\ UNCHANGED <<repo, exportConfig, finalRepo, versions, returned, storage, requests,
                   showPublishModal, gistCount, importVars>>

\* the mode tabs: setMode(m); setError(null); setSuccessMsg(null)
SetMode(m) ==
    /\ showPublishModal
    /\ dialog' = [dialog EXCEPT !.mode = m, !.error = "null", !.successMsg = "null"]
    /\ UNCHANGED <<repo, exportConfig, finalRepo, versions, returned, storage, requests,
                   showPublishModal, gistCount, importVars>>

\* the target field, shown in update mode: setTargetGistId(e.target.value)
SetTargetGistId(x) ==
    /\ showPublishModal
    /\ dialog.mode = "update"
    /\ dialog' = [dialog EXCEPT !.targetGistId = x]
    /\ UNCHANGED <<repo, exportConfig, finalRepo, versions, returned, storage, requests,
                   showPublishModal, gistCount, importVars>>

\* a click on an entry of Recent Deployments: if (mode === 'update') setTargetGistId(dep.id)
HistoryClick(k) ==
    /\ showPublishModal
    /\ dialog.mode = "update"
    /\ dialog' = [dialog EXCEPT !.targetGistId = dialog.history[k].id]
    /\ UNCHANGED <<repo, exportConfig, finalRepo, versions, returned, storage, requests,
                   showPublishModal, gistCount, importVars>>

\* the deploy button, disabled while loading: processDeploy(mode === 'update') up to its
\* await; the request keeps what the closure captured and whether its dialog is mounted
ProcessDeploy ==
    /\ showPublishModal
    /\ ~dialog.loading
    /\ Cardinality(requests) < MaxInFlight
    /\ LET isUpdate == dialog.mode = "update"
           gistId == IF isUpdate THEN extractGistId(dialog.targetGistId) ELSE <<>>
       IN  IF dialog.token = <<>>
           THEN /\ dialog' = [dialog EXCEPT !.error = "GitHub Personal Access Token is required."]
                /\ UNCHANGED <<storage, requests>>
           ELSE IF isUpdate /\ gistId = <<>>
           THEN /\ dialog' = [dialog EXCEPT
                                 !.error = "Could not extract a valid Gist ID from the input."]
                /\ UNCHANGED <<storage, requests>>
           ELSE /\ dialog' = [dialog EXCEPT !.loading = TRUE, !.error = "null",
                                            !.successMsg = "null"]
                /\ storage' = [storage EXCEPT !.gh_token = dialog.token]
                /\ requests' = requests \cup
                      {[isUpdate |-> isUpdate,
                        gistId |-> gistId,
                        targetGistId |-> dialog.targetGistId,
                        history |-> dialog.history,
                        name |-> processRepoForExport(repo, exportConfig).name,
                        live |-> TRUE]}
    /\ UNCHANGED <<repo, exportConfig, finalRepo, versions, returned, showPublishModal,
                   gistCount, importVars>>

\* POST gists answers with a new gist, PATCH gists/id with the gist of that id
DataId(r) == IF r.isUpdate THEN r.gistId ELSE GistId(gistCount + 1)

\* [newDeployment, ...history.filter(h => h.id !== data.id)]
NewHistory(r, id) ==
    <<Deployment(id, r.name)>> \o SelectSeq(r.history, LAMBDA h : h.id # id)

\* response.ok: lines 113-136, then finally; the state setters of an unmounted
\* component do nothing, localStorage.setItem does what it always does
RespondOk(r) ==
    /\ r \in requests
    /\ IF r.isUpdate THEN r.gistId \in Gists ELSE gistCount < MaxGists
    /\ LET id == DataId(r)
       IN  /\ dialog' = IF r.live
                        THEN [dialog EXCEPT
                                 !.history = NewHistory(r, id),
                                 !.successMsg = IF r.isUpdate THEN "Repo updated successfully!"
                                                ELSE "New server deployed successfully!",
                                 !.targetGistId = IF r.isUpdate THEN @ ELSE id,
                                 !.loading = FALSE]
                        ELSE dialog
           /\ storage' = [storage EXCEPT !.deploy_history = NewHistory(r, id)]
    /\ gistCount' = IF r.isUpdate THEN gistCount ELSE gistCount + 1
    /\ requests' = requests \ {r}
    /\ UNCHANGED <<repo, exportConfig, finalRepo, versions, returned, showPublishModal,
                   importVars>>

\* the message thrown for a response that is not ok (lines 107-111)
StatusMessage(status) ==
    IF status = 404 THEN "Gist not found. Check ID and Token permissions."
    ELSE IF status = 401 THEN "Invalid Token or expired."
    ELSE "GitHub API Error"

\* !response.ok: the throw, the catch, then finally
RespondNotOk(r, status) ==
    /\ r \in requests
    /\ dialog' = IF r.live
                 THEN [dialog EXCEPT !.error = StatusMessage(status), !.loading = FALSE]
                 ELSE dialog
    /\ requests' = requests \ {r}
    /\ UNCHANGED <<repo, exportConfig, finalRepo, versions, returned, storage,
                   showPublishModal, gistCount, importVars>>

\* fetch rejects: the catch, then finally
RespondNetworkError(r) ==
    /\ r \in requests
    /\ dialog' = IF r.live
                 THEN [dialog EXCEPT !.error = "Failed to fetch", !.loading = FALSE]
                 ELSE dialog
    /\ requests' = requests \ {r}
    /\ UNCHANGED <<repo, exportConfig, finalRepo, versions, returned, storage,
                   showPublishModal, gistCount, importVars>>

NextPublish ==
    \/ \E t \in Tokens : SetToken(t)
    \/ \E m \in {"create", "update"} : SetMode(m)
    \/ \E x \in TargetInputs(dialog.history) : SetTargetGistId(x)
    \/ \E k \in DOMAIN dialog.history : HistoryClick(k)
    \/ ProcessDeploy
    \/ \E r \in requests : RespondOk(r)
    \/ \E r \in requests, status \in {401, 404, 500} : RespondNotOk(r, status)
    \/ \E r \in requests : RespondNetworkError(r)

SpecPublish == InitPublish /\ [][NextPublish]_vars

(* The publish dialog closed and opened again while the editor runs *)

\* the editor with the dialog closed; a token and a history as the last session left them
InitSessions ==
    /\ repo = SAMPLE_REPO
    /\ exportConfig = [deduplicate |-> TRUE, filterIncompatible |-> TRUE]
    /\ finalRepo = NoDoc
    /\ versions = <<EmptyStr, EmptyStr>>
    /\ returned = NoResult
    /\ ImportIdle
    /\ storage \in [gh_token : Tokens \ {<<>>}, deploy_history : SavedHistories]
    /\ dialog = UnmountedDialog
    /\ requests = {}
    /\ showPublishModal = FALSE
    /\ gistCount = 0

NextSessions ==
    \/ OpenPublish
    \/ ClosePublish
    \/ \E m \in {"create", "update"} : SetMode(m)
    \/ ProcessDeploy
    \/ \E r \in requests : RespondOk(r)
    \/ \E r \in requests, status \in {401, 404, 500} : RespondNotOk(r, status)
    \/ \E r \in requests : RespondNetworkError(r)

SpecSessions == InitSessions /\ [][NextSessions]_vars

----------------------------------------------------------------------------
(* The editor: its handlers on repo.apps, the JSON copy and the import modal *)

\* App's exportConfig state: setExportConfig is never called, so it keeps its initial value
AppExportConfig == [deduplicate |-> TRUE, filterIncompatible |-> TRUE]

\* the ids given out while the editor is followed
MaxGenerated == 1

\* generateId and Math.random().toString(36): the n-th id given out, unlike every other
GenId(n) == <<"g1", "g2", "g3", "g4", "g5", "g6">>[n]

\* x[f] || fallback, for a field whose falsy value is empty
Or(x, f, empty, fallback) == IF f \in DOMAIN x /\ x[f] # empty THEN x[f] ELSE fallback

\* Array.isArray(x[f]); a value that is not a list is written as the field f with the
\* field notArray beside it
IsArray(x, f, notArray) == f \in DOMAIN x /\ notArray \notin DOMAIN x

\* JSON.stringify of a document and JSON.parse of the text
stringify(doc) == [json |-> doc]

parse(text) == text.json

\* DEFAULT_APP (the date is not modelled)
DEFAULT_APP ==
    Shape(<<"c","o","m",".","e","x","a","m","p","l","e",".","a","p","p">>,
          <<"N","e","w"," ","A","p","p">>, V10, "unknown", <<>>)

\* `New App ${n}` and `App ${n}`
NewAppName(n) == <<"N","e","w"," ","A","p","p"," ">> \o <<DigitChars[n + 1]>>

ImportedAppName(n) == <<"A","p","p"," ">> \o <<DigitChars[n + 1]>>

\* the number of elements before index i + 1 that have no id of their own
RECURSIVE MissingIds(_, _)
MissingIds(rawApps, i) ==
    IF i = 0 THEN 0
    ELSE MissingIds(rawApps, i - 1) + (IF Or(rawApps[i], "id", "", "") = "" THEN 1 ELSE 0)

\* the element of rawApps.map((app, index) => ...), lines 39-55; base is the number of
\* ids given out before the call
ImportedApp(rawApps, index, base, repoTint) ==
    LET app == rawApps[index]
    IN  [id |-> Or(app, "id", "", GenId(base + MissingIds(rawApps, index))),
         name |-> Or(app, "name", <<>>, ImportedAppName(index)),
         bundleIdentifier |->
            Or(app, "bundleIdentifier", <<>>,
               Or(app, "bundleID", <<>>, Or(app, "identifier", <<>>, <<>>))),
         developerName |-> Or(app, "developerName", "", Or(app, "developer", "", "Unknown")),
         version |-> Or(app, "version", <<>>, V10),
         versionDate |-> Or(app, "versionDate", "", "today"),
         versionDescription |-> Or(app, "versionDescription", "", ""),
         downloadURL |-> Or(app, "downloadURL", "", Or(app, "download", "", "")),
         localizedDescription |->
            Or(app, "localizedDescription", "", Or(app, "description", "", "")),
         iconURL |->
            Or(app, "iconURL", "",
               Or(app, "icon", "", Or(app, "icon_url", "", Or(app, "app_icon", "", "")))),
         tintColor |-> Or(app, "tintColor", "", repoTint),
         size |-> Or(app, "size", 0, 0),
         screenshotURLs |->
            IF IsArray(app, "screenshotURLs", "screenshotURLsNotArray")
            THEN app.screenshotURLs ELSE <<>>,
         compatibilityStatus |-> "unknown"]

\* processParsing with the apps read from the field "apps" only
processParsing_AppsOnly(data, base) ==
    LET source == IF "source" \in DOMAIN data THEN data.source ELSE data
        tint == Or(source, "tintColor", "", "#3b82f6")
        rawApps == IF "apps" \in DOMAIN source THEN source.apps ELSE <<>>
        isArray == "appsNotArray" \notin DOMAIN source
    IN  [name |-> Or(source, "name", "", "Imported Repo"),
         subtitle |-> Or(source, "subtitle", "", ""),
         description |-> Or(source, "description", "", ""),
         iconURL |-> Or(source, "iconURL", "", Or(source, "icon", "", Or(source, "icon_url", "", ""))),
         headerImageURL |-> Or(source, "headerImageURL", "", Or(source, "headerImage", "", "")),
         website |-> Or(source, "website", "", ""),
         tintColor |-> tint,
         apps |-> IF isArray
                  THEN [i \in DOMAIN rawApps |-> ImportedApp(rawApps, i, base, tint)]
                  ELSE <<>>]

\* processParsing (lines 20-57) of a parsed document that is an object: the value of
\* previewRepo; base is the number of ids given out before the call
processParsing(data, base) ==
    LET source == IF "source" \in DOMAIN data THEN data.source ELSE data
        tint == Or(source, "tintColor", "", "#3b82f6")
        fromApps == "apps" \in DOMAIN source
        fromPackages == ~fromApps /\ "packages" \in DOMAIN source
        rawApps == IF fromApps THEN source.apps
                   ELSE IF fromPackages THEN source.packages ELSE <<>>
        isArray == /\ fromApps => "appsNotArray" \notin DOMAIN source
                   /\ fromPackages => "packagesNotArray" \notin DOMAIN source
    IN  [name |-> Or(source, "name", "", "Imported Repo"),
         subtitle |-> Or(source, "subtitle", "", ""),
         description |-> Or(source, "description", "", ""),
         iconURL |-> Or(source, "iconURL", "", Or(source, "icon", "", Or(source, "icon_url", "", ""))),
         headerImageURL |-> Or(source, "headerImageURL", "", Or(source, "headerImage", "", "")),
         website |-> Or(source, "website", "", ""),
         tintColor |-> tint,
         apps |-> IF isArray
                  THEN [i \in DOMAIN rawApps |-> ImportedApp(rawApps, i, base, tint)]
                  ELSE <<>>]

\* the ids the call gives out
IdsGiven(data) ==
    LET source == IF "source" \in DOMAIN data THEN data.source ELSE data
        fromApps == "apps" \in DOMAIN source
        fromPackages == ~fromApps /\ "packages" \in DOMAIN source
        rawApps == IF fromApps THEN source.apps
                   ELSE IF fromPackages THEN source.packages ELSE <<>>
        isArray == /\ fromApps => "appsNotArray" \notin DOMAIN source
                   /\ fromPackages => "packagesNotArray" \notin DOMAIN source
    IN  IF isArray THEN MissingIds(rawApps, Len(rawApps)) ELSE 0

\* manifests written by hand or by other tools, as the documents their text parses to:
\* nothing but a subtitle; two apps under one id; the apps under "packages" with the
\* other spellings of the fields, no id and screenshots that are not a list; an "apps"
\* that is not a list
Manifests ==
    << [subtitle |-> "Nightly builds"],
       [name |-> "Twins", tintColor |-> "#ff0000",
        apps |-> << [id |-> "A", name |-> NameApp, bundleIdentifier |-> BidX,
                     version |-> V10, size |-> 7, category |-> "Games",
                     screenshotURLs |-> <<Url1>>],
                    [id |-> "A", name |-> NameOther, bundleIdentifier |-> BidXUp,
                     version |-> V20, tintColor |-> "#00ff00"] >>],
       [name |-> "Packages",
        packages |-> << [bundleID |-> BidX, developer |-> "Dev", download |-> "h/ipa",
                         description |-> "An app", icon |-> "h/icon",
                         screenshotURLs |-> <<>>, screenshotURLsNotArray |-> TRUE] >>],
       [name |-> "No list", apps |-> <<>>, appsNotArray |-> TRUE] >>

\* the records AIImporter hands to handleSmartAppImport
SmartApps == {Shape(BidX, NameApp, V10, "unknown", <<Url1>>)}

\* the statuses a scan reports
ScanStatuses == {"jailbreak_only"}

\* the editor starts on the default document or on a draft
InitEditor ==
    /\ repo \in {DEFAULT_REPO, SAMPLE_REPO}
    /\ exportConfig = AppExportConfig
    /\ finalRepo = NoDoc
    /\ versions = <<EmptyStr, EmptyStr>>
    /\ returned = NoResult
    /\ dialog = UnmountedDialog
    /\ storage = [gh_token |-> <<>>, deploy_history |-> <<>>]
    /\ requests = {}
    /\ showPublishModal = FALSE
    /\ gistCount = 0
    /\ ImportIdle

\* addApp
AddApp ==
    /\ generated < MaxGenerated
    /\ generated' = generated + 1
    /\ repo' = [repo EXCEPT !.apps =
                   Append(@, [DEFAULT_APP EXCEPT !.id = GenId(generated + 1),
                                                  !.name = NewAppName(Len(repo.apps) + 1)])]
    /\ UNCHANGED <<exportConfig, finalRepo, versions, returned, publishVars, clipboard,
                   jsonInput, previewRepo>>

\* handleSmartAppImport(newApp)
HandleSmartAppImport(newApp) ==
    /\ generated < MaxGenerated
    /\ generated' = generated + 1
    /\ repo' = [repo EXCEPT !.apps = Append(@, [newApp EXCEPT !.id = GenId(generated + 1)])]
    /\ UNCHANGED <<exportConfig, finalRepo, versions, returned, publishVars, clipboard,
                   jsonInput, previewRepo>>

\* what the app editor passes to onUpdate for a record: the record with a field changed
EditedCopies(app) == {[app EXCEPT !.version = V20]}

\* updateApp(id, updatedApp): the first record of that id is replaced
UpdateApp(id, updatedApp) ==
    /\ \E i \in DOMAIN repo.apps : repo.apps[i].id = id
    /\ LET index == CHOOSE i \in DOMAIN repo.apps :
                       /\ repo.apps[i].id = id
                       /\ \A j \in 1..(i - 1) : repo.apps[j].id # id
       IN  repo' = [repo EXCEPT !.apps[index] = updatedApp]
    /\ UNCHANGED <<exportConfig, finalRepo, versions, returned, publishVars, importVars>>

\* handleScanUpdates(updates)
HandleScanUpdates(updates) ==
    /\ repo' = [repo EXCEPT !.apps =
                   [i \in DOMAIN @ |->
                       IF @[i].id \in DOMAIN updates
                       THEN [f \in DOMAIN @[i] \cup {"compatibilityStatus"} |->
                                IF f = "compatibilityStatus" THEN updates[@[i].id]
                                ELSE @[i][f]]
                       ELSE @[i]]]
    /\ UNCHANGED <<exportConfig, finalRepo, versions, returned, publishVars, importVars>>

\* deleteApp(id)
DeleteApp(id) ==
    /\ repo' = [repo EXCEPT !.apps = SelectSeq(@, LAMBDA a : a.id # id)]
    /\ UNCHANGED <<exportConfig, finalRepo, versions, returned, publishVars, importVars>>

\* copyToClipboard: navigator.clipboard.writeText(generateJSON())
CopyToClipboard ==
    /\ clipboard' = stringify(processRepoForExport(repo, exportConfig))
    /\ UNCHANGED <<repo, exportConfig, finalRepo, versions, returned, publishVars,
                   jsonInput, previewRepo, generated>>

\* the text area of the import modal, shown while there is no preview: the text of a
\* manifest, or of a document that wraps it as its source
SetJsonInput(text) ==
    /\ previewRepo = NoDoc
    /\ jsonInput' = text
    /\ UNCHANGED <<repo, exportConfig, finalRepo, versions, returned, publishVars,
                   clipboard, previewRepo, generated>>

\* the texts of manifests of other origin, bare or wrapped
ManifestTexts ==
    LET docs == {Manifests[i] : i \in DOMAIN Manifests}
    IN  {stringify(d) : d \in docs} \cup {stringify([source |-> d]) : d \in docs}

\* the texts a user enters: those and what the clipboard holds, bare or wrapped
JsonInputs ==
    ManifestTexts \cup (IF clipboard = NoDoc THEN {}
                        ELSE {clipboard, stringify([source |-> parse(clipboard)])})

\* handleParse in json mode with a text that parses to an object
HandleParse ==
    /\ previewRepo = NoDoc
    /\ jsonInput # NoDoc
    /\ generated + IdsGiven(parse(jsonInput)) <= MaxGenerated
    /\ previewRepo' = processParsing(parse(jsonInput), generated)
    /\ generated' = generated + IdsGiven(parse(jsonInput))
    /\ UNCHANGED <<repo, exportConfig, finalRepo, versions, returned, publishVars,
                   clipboard, jsonInput>>

\* the Back button of the preview
Back ==
    /\ previewRepo # NoDoc
    /\ previewRepo' = NoDoc
    /\ UNCHANGED <<repo, exportConfig, finalRepo, versions, returned, publishVars,
                   clipboard, jsonInput, generated>>

\* Import Now: onImport(previewRepo), that is handleImportRepo, then onClose()
ImportNow ==
    /\ previewRepo # NoDoc
    /\ repo' = previewRepo
    /\ previewRepo' = NoDoc
    /\ jsonInput' = NoDoc
    /\ UNCHANGED <<exportConfig, finalRepo, versions, returned, publishVars, clipboard,
                   generated>>

NextEditor ==
    \/ AddApp
    \/ \E newApp \in SmartApps : HandleSmartAppImport(newApp)
    \/ \E i \in DOMAIN repo.apps : \E updatedApp \in EditedCopies(repo.apps[i]) :
          UpdateApp(repo.apps[i].id, updatedApp)
    \/ \E i \in DOMAIN repo.apps : \E status \in ScanStatuses :
          HandleScanUpdates([id \in {repo.apps[i].id} |-> status])
    \/ \E i \in DOMAIN repo.apps : DeleteApp(repo.apps[i].id)
    \/ \E text \in ManifestTexts : SetJsonInput(text)
    \/ HandleParse
    \/ Back
    \/ ImportNow

SpecEditor == InitEditor /\ [][NextEditor]_vars

(* The manifest copied from the editor and imported again *)

\* a draft in which no text field of the repository or of an app is empty
COMPLETE_REPO ==
    [SAMPLE_REPO EXCEPT
        !.iconURL = "https://example.com/icon.png",
        !.headerImageURL = "https://example.com/header.png",
        !.website = "https://example.com",
        !.apps = [i \in DOMAIN @ |->
                     [@[i] EXCEPT !.downloadURL = "https://example.com/app.ipa",
                                  !.size = 1024,
                                  !.screenshotURLs = <<Url1, Url2>>]]]

InitRoundTrip ==
    /\ repo \in {DEFAULT_REPO, SAMPLE_REPO, COMPLETE_REPO}
    /\ exportConfig = AppExportConfig
    /\ finalRepo = NoDoc
    /\ versions = <<EmptyStr, EmptyStr>>
    /\ returned = NoResult
    /\ dialog = UnmountedDialog
    /\ storage = [gh_token |-> <<>>, deploy_history |-> <<>>]
    /\ requests = {}
    /\ showPublishModal = FALSE
    /\ gistCount = 0
    /\ ImportIdle

NextRoundTrip ==
    \/ CopyToClipboard
    \/ \E text \in JsonInputs : SetJsonInput(text)
    \/ HandleParse
    \/ Back
    \/ ImportNow

SpecRoundTrip == InitRoundTrip /\ [][NextRoundTrip]_vars

----------------------------------------------------------------------------
(* What the claims speak of, stated without the pipeline's own operators *)

\* an export has returned its document and the handler has not yet ended
Exported == finalRepo # NoDoc

HasStatus(app) == "compatibilityStatus" \in DOMAIN app

\* explicitly flagged as one of the three incompatible kinds
Flagged(app) ==
    /\ HasStatus(app)
    /\ \/ app.compatibilityStatus = "jailbreak_only"
       \/ app.compatibilityStatus = "trollstore_only"
       \/ app.compatibilityStatus = "jit_required"

\* empty or made of white space only
IsBlank(u) == \A i \in DOMAIN u : u[i] \in WhiteSpace

NonBlank(urls) == SelectSeq(urls, LAMBDA u : ~IsBlank(u))

\* the identity key: the lower-cased bundleIdentifier if non-empty, else the lower-cased name
KeyOf(app) ==
    IF Len(app.bundleIdentifier) > 0
    THEN toLowerCase(app.bundleIdentifier)
    ELSE toLowerCase(app.name)

\* the positions of the records that reach the deduplicator, in list order
Candidates(apps, config) ==
    SelectSeq([i \in DOMAIN apps |-> i],
              LAMBDA i : ~(config.filterIncompatible /\ Flagged(apps[i])))

CandidatesOfKey(apps, config, key) ==
    SelectSeq(Candidates(apps, config), LAMBDA i : KeyOf(apps[i]) = key)

\* the winner of a non-empty run of records of one key: the last record takes the slot
\* exactly when it compares >= 0 with the winner of the records before it
RECURSIVE WinnerOf(_, _)
WinnerOf(apps, run) ==
    IF Len(run) = 1 THEN run[1]
    ELSE LET before == WinnerOf(apps, SubSeq(run, 1, Len(run) - 1))
             last == run[Len(run)]
         IN  IF compareVersions(apps[last].version, apps[before].version) >= 0
             THEN last
             ELSE before

\* the ids of the exported elements, in order
ExportedIds == [k \in DOMAIN finalRepo.apps |-> finalRepo.apps[k].id]

\* the positions in repo.apps of the records the export kept (ids are pairwise distinct)
KeptPositions == {i \in DOMAIN repo.apps : \E k \in DOMAIN finalRepo.apps : finalRepo.apps[k].id = repo.apps[i].id}

----------------------------------------------------------------------------
(* Claims *)

\* C1: no app element of an exported document has a compatibilityStatus key, whatever
\* status the source record carried.
C1_NoCompatibilityStatus ==
    Exported => \A k \in DOMAIN finalRepo.apps : "compatibilityStatus" \notin DOMAIN finalRepo.apps[k]

\* C1 witness: an export with the filter off kept a record flagged jailbreak_only and a
\* record marked safe.
C1_Witness ==
    /\ Exported
    /\ ~exportConfig.filterIncompatible
    /\ \E i, j \in KeptPositions :
          /\ HasStatus(repo.apps[i]) /\ repo.apps[i].compatibilityStatus = "jailbreak_only"
          /\ HasStatus(repo.apps[j]) /\ repo.apps[j].compatibilityStatus = "safe"

\* C2: every exported element's screenshotURLs is its source record's screenshotURLs with
\* the empty and white-space-only entries removed, the others in their original order.
C2_ScreenshotsPruned ==
    Exported =>
        \A k \in DOMAIN finalRepo.apps :
            \E i \in DOMAIN repo.apps :
                /\ repo.apps[i].id = finalRepo.apps[k].id
                /\ finalRepo.apps[k].screenshotURLs = NonBlank(repo.apps[i].screenshotURLs)

\* C2 witness: a kept record with an empty entry, a blank entry and two URLs exports
\* exactly the two URLs.
C2_Witness ==
    /\ Exported
    /\ \E i \in KeptPositions, j \in KeptPositions :
          /\ repo.apps[i].screenshotURLs = <<Url1, Blank, Url2>>
          /\ repo.apps[j].screenshotURLs = <<Url1, EmptyStr, Url2>>
    /\ \E k \in DOMAIN finalRepo.apps : finalRepo.apps[k].screenshotURLs = <<Url1, Url2>>

\* C3: with both flags enabled, every key that has a compatible record is exported as
\* the winner of its compatible records, and no flagged record is exported, even when a
\* flagged record of the key has a higher version.
C3_FilterBeforeDedup ==
    (Exported /\ exportConfig.deduplicate /\ exportConfig.filterIncompatible) =>
        /\ \A i \in DOMAIN repo.apps :
              ~Flagged(repo.apps[i]) =>
                  LET run == SelectSeq([j \in DOMAIN repo.apps |-> j],
                                       LAMBDA j : /\ ~Flagged(repo.apps[j])
                                                  /\ KeyOf(repo.apps[j]) = KeyOf(repo.apps[i]))
                  IN  WinnerOf(repo.apps, run) \in KeptPositions
        /\ \A i \in KeptPositions : ~Flagged(repo.apps[i])

\* C3 witness: a compatible record was exported although a flagged record of its key has
\* a strictly higher version.
C3_Witness ==
    /\ Exported /\ exportConfig.deduplicate /\ exportConfig.filterIncompatible
    /\ \E i \in KeptPositions, j \in DOMAIN repo.apps :
          /\ Flagged(repo.apps[j])
          /\ KeyOf(repo.apps[j]) = KeyOf(repo.apps[i])
          /\ compareVersions(repo.apps[j].version, repo.apps[i].version) = 1

\* C4: exporting the exported document again, under the same config, gives the same
\* document, apps order included.
C4_Idempotent ==
    Exported => processRepoForExport(finalRepo, exportConfig) = finalRepo

\* C4 witness: an export with both flags on that took three records, dropped a flagged
\* one and a duplicate, and kept one.
C4_Witness ==
    /\ Exported /\ exportConfig.deduplicate /\ exportConfig.filterIncompatible
    /\ Len(repo.apps) = 3 /\ Len(finalRepo.apps) = 1
    /\ \E i \in DOMAIN repo.apps : Flagged(repo.apps[i])
    /\ \E i \in DOMAIN repo.apps \ KeptPositions : ~Flagged(repo.apps[i])

\* C5: a step in which an export returns its document leaves the editor's document
\* (the apps list, every record, every screenshotURLs list) as it was.
C5_InputNotMutated ==
    [][(~Exported /\ Exported') => repo' = repo]_vars

\* C5 witness: an export has returned a document whose apps differ from the editor's,
\* and the editor's records still carry their statuses and blank screenshot entries.
C5_Witness ==
    /\ Exported
    /\ Len(finalRepo.apps) < Len(repo.apps)
    /\ \E i \in KeptPositions :
          /\ HasStatus(repo.apps[i])
          /\ repo.apps[i].screenshotURLs # NonBlank(repo.apps[i].screenshotURLs)

\* C6: with both flags off the exported apps list has the length of repo.apps and its
\* i-th element is the i-th record without compatibilityStatus and with pruned screenshots.
C6_NoFlagsKeepsAll ==
    (Exported /\ ~exportConfig.deduplicate /\ ~exportConfig.filterIncompatible) =>
        /\ Len(finalRepo.apps) = Len(repo.apps)
        /\ \A i \in DOMAIN repo.apps :
              /\ i \in DOMAIN finalRepo.apps
              /\ DOMAIN finalRepo.apps[i] = DOMAIN repo.apps[i] \ {"compatibilityStatus"}
              /\ \A f \in DOMAIN finalRepo.apps[i] :
                    finalRepo.apps[i][f] =
                        IF f = "screenshotURLs"
                        THEN NonBlank(repo.apps[i].screenshotURLs)
                        ELSE repo.apps[i][f]

\* C6 witness: with both flags off, three records of one key, one of them flagged, were
\* all exported.
C6_Witness ==
    /\ Exported /\ ~exportConfig.deduplicate /\ ~exportConfig.filterIncompatible
    /\ Len(repo.apps) = 3 /\ Len(finalRepo.apps) = 3
    /\ \A i \in DOMAIN repo.apps : KeyOf(repo.apps[i]) = KeyOf(repo.apps[1])
    /\ \E i \in DOMAIN repo.apps : Flagged(repo.apps[i])

\* C7: every repository-level field of the exported document equals the input's, and
\* every field of a surviving record other than compatibilityStatus and screenshotURLs
\* (the id included) is in the exported element with the same value.
C7_CarriedThrough ==
    Exported =>
        LET kept == getFilteredApps(repo.apps, exportConfig)
        IN  /\ DOMAIN finalRepo = DOMAIN repo
            /\ \A f \in DOMAIN repo \ {"apps"} : finalRepo[f] = repo[f]
            /\ Len(finalRepo.apps) = Len(kept)
            /\ \A k \in DOMAIN kept :
                  \A f \in DOMAIN repo.apps[kept[k]] \ {"compatibilityStatus", "screenshotURLs"} :
                      /\ f \in DOMAIN finalRepo.apps[k]
                      /\ finalRepo.apps[k][f] = repo.apps[kept[k]][f]

\* C7 witness: the sample repository was exported with its two records, each of which
\* carried a status, a tint colour and a category of its own.
C7_Witness ==
    /\ Exported
    /\ repo.name = "Retro Gaming"
    /\ ExportedIds = <<"delta-sample", "provenance-sample">>
    /\ \A i \in DOMAIN repo.apps : HasStatus(repo.apps[i])
    /\ finalRepo.apps[1].tintColor # finalRepo.apps[2].tintColor

\* C8: with deduplicate enabled the exported records are exactly the winners of their
\* keys, a record taking its key's slot exactly when it compares >= 0 with the winner so
\* far; three records of one key with versions 1.0, 2.0, 2.0 export as the third alone.
C8_LaterWinsTies ==
    (Exported /\ exportConfig.deduplicate) =>
        LET cand == Candidates(repo.apps, exportConfig)
        IN  /\ KeptPositions =
                  { WinnerOf(repo.apps, CandidatesOfKey(repo.apps, exportConfig, KeyOf(repo.apps[cand[c]]))) :
                        c \in DOMAIN cand }
            /\ Len(finalRepo.apps) = Cardinality(KeptPositions)
            /\ ( /\ Len(cand) = 3 /\ Len(repo.apps) = 3
                 /\ \A i \in DOMAIN repo.apps : KeyOf(repo.apps[i]) = KeyOf(repo.apps[1])
                 /\ [i \in DOMAIN repo.apps |-> repo.apps[i].version] = <<V10, V20, V20>> )
               => ExportedIds = <<"C">>

\* C8 witness: records A, B, C of one key with versions 1.0, 2.0, 2.0 were deduplicated
\* to C alone.
C8_Witness ==
    /\ Exported /\ exportConfig.deduplicate
    /\ Len(repo.apps) = 3
    /\ \A i \in DOMAIN repo.apps : KeyOf(repo.apps[i]) = KeyOf(repo.apps[1])
    /\ [i \in DOMAIN repo.apps |-> repo.apps[i].version] = <<V10, V20, V20>>
    /\ ExportedIds = <<"C">>

\* C9: with deduplicate enabled the record kept for a key compares >= 0 with every
\* record of that key that reached the deduplicator.
C9_KeptIsHighest ==
    (Exported /\ exportConfig.deduplicate) =>
        LET cand == Candidates(repo.apps, exportConfig)
        IN  \A i \in KeptPositions, c \in DOMAIN cand :
                KeyOf(repo.apps[cand[c]]) = KeyOf(repo.apps[i]) =>
                    compareVersions(repo.apps[i].version, repo.apps[cand[c]].version) >= 0

\* C10: with deduplicate enabled the exported records have pairwise distinct keys and
\* their keys are exactly the keys of the records that reached the deduplicator, the
\* empty key of a record without name and bundleIdentifier included.
C10_OneRecordPerKey ==
    (Exported /\ exportConfig.deduplicate) =>
        LET cand == Candidates(repo.apps, exportConfig)
        IN  /\ \A k1, k2 \in DOMAIN finalRepo.apps :
                  k1 # k2 => KeyOf(finalRepo.apps[k1]) # KeyOf(finalRepo.apps[k2])
            /\ {KeyOf(finalRepo.apps[k]) : k \in DOMAIN finalRepo.apps}
                  = {KeyOf(repo.apps[cand[c]]) : c \in DOMAIN cand}

\* C10 witness: two records without name and bundleIdentifier and a record keyed by its
\* name were deduplicated to two records, one of them with the empty key.
C10_Witness ==
    /\ Exported /\ exportConfig.deduplicate
    /\ Len(finalRepo.apps) = 2
    /\ \E i, j \in DOMAIN repo.apps :
          /\ i # j
          /\ KeyOf(repo.apps[i]) = <<>> /\ KeyOf(repo.apps[j]) = <<>>
          /\ ~Flagged(repo.apps[i]) /\ ~Flagged(repo.apps[j])
    /\ \E k \in DOMAIN finalRepo.apps : KeyOf(finalRepo.apps[k]) = <<>>
    /\ \E k \in DOMAIN finalRepo.apps :
          finalRepo.apps[k].bundleIdentifier = <<>> /\ finalRepo.apps[k].name # <<>>

\* two records hold distinct slots of the export: each key has its own exported record
DistinctSlots(a, b) ==
    \E k1, k2 \in DOMAIN finalRepo.apps :
        /\ k1 # k2
        /\ KeyOf(finalRepo.apps[k1]) = KeyOf(a)
        /\ KeyOf(finalRepo.apps[k2]) = KeyOf(b)

\* the bundleIdentifiers of two records differ, letter case set aside
BundleIdsDiffer(a, b) == toLowerCase(a.bundleIdentifier) # toLowerCase(b.bundleIdentifier)

\* one record has no bundleIdentifier and its name is, letter case set aside, the
\* bundleIdentifier of the other
NameIsBundleIdOf(a, b) ==
    /\ a.bundleIdentifier = <<>>
    /\ b.bundleIdentifier # <<>>
    /\ toLowerCase(a.name) = toLowerCase(b.bundleIdentifier)

\* C11 as stated: with deduplicate enabled, two records without bundleIdentifier whose
\* names are equal up to letter case are never both exported, and two records whose
\* bundleIdentifiers differ up to letter case always keep distinct slots of the export,
\* whatever their names.
C11_KeyFallback ==
    (Exported /\ exportConfig.deduplicate) =>
        LET cand == Candidates(repo.apps, exportConfig)
        IN  \A c, d \in DOMAIN cand :
              LET a == repo.apps[cand[c]]
                  b == repo.apps[cand[d]]
              IN  /\ (/\ c # d
                      /\ a.bundleIdentifier = <<>> /\ b.bundleIdentifier = <<>>
                      /\ toLowerCase(a.name) = toLowerCase(b.name))
                         => ~(cand[c] \in KeptPositions /\ cand[d] \in KeptPositions)
                  /\ BundleIdsDiffer(a, b) => DistinctSlots(a, b)

\* C11 amended: the same, except that a record without bundleIdentifier whose name is the
\* bundleIdentifier of another record shares that record's slot.
C11_KeyFallbackAmended ==
    (Exported /\ exportConfig.deduplicate) =>
        LET cand == Candidates(repo.apps, exportConfig)
        IN  \A c, d \in DOMAIN cand :
              LET a == repo.apps[cand[c]]
                  b == repo.apps[cand[d]]
              IN  /\ (/\ c # d
                      /\ a.bundleIdentifier = <<>> /\ b.bundleIdentifier = <<>>
                      /\ toLowerCase(a.name) = toLowerCase(b.name))
                         => ~(cand[c] \in KeptPositions /\ cand[d] \in KeptPositions)
                  /\ (/\ BundleIdsDiffer(a, b)
                      /\ ~NameIsBundleIdOf(a, b)
                      /\ ~NameIsBundleIdOf(b, a))
                         => DistinctSlots(a, b)

\* C11 witness: of three records named "App" or "app", the two without bundleIdentifier
\* were deduplicated to one and the one with a bundleIdentifier kept its own slot.
C11_Witness ==
    /\ Exported /\ exportConfig.deduplicate
    /\ Len(repo.apps) = 3 /\ Len(finalRepo.apps) = 2
    /\ \A i \in DOMAIN repo.apps :
          /\ toLowerCase(repo.apps[i].name) = toLowerCase(NameApp)
          /\ ~Flagged(repo.apps[i])
    /\ \E i, j \in DOMAIN repo.apps :
          /\ i # j
          /\ repo.apps[i].bundleIdentifier = <<>> /\ repo.apps[j].bundleIdentifier = <<>>
          /\ repo.apps[i].name # repo.apps[j].name
    /\ \E k \in DOMAIN finalRepo.apps : finalRepo.apps[k].bundleIdentifier = BidX
    /\ \E k \in DOMAIN finalRepo.apps : finalRepo.apps[k].bundleIdentifier = <<>>

\* the place, among the records that reach the deduplicator, of the first one with the key
FirstOccurrence(apps, config, key) ==
    LET cand == Candidates(apps, config)
    IN  CHOOSE c \in DOMAIN cand :
            /\ KeyOf(apps[cand[c]]) = key
            /\ \A d \in DOMAIN cand : KeyOf(apps[cand[d]]) = key => c <= d

\* C12: with deduplicate enabled the exported winners stand in the order in which their
\* keys first occur among the records that reach the deduplicator: the winner of one key
\* precedes the winner of another exactly when the first record of the one key precedes
\* the first record of the other, wherever the winning records themselves stand.
C12_FirstOccurrenceOrder ==
    (Exported /\ exportConfig.deduplicate) =>
        \A k1, k2 \in DOMAIN finalRepo.apps :
            k1 < k2 <=>
                FirstOccurrence(repo.apps, exportConfig, KeyOf(finalRepo.apps[k1]))
                    < FirstOccurrence(repo.apps, exportConfig, KeyOf(finalRepo.apps[k2]))

\* C12 witness: the first and the third record share a key, the third won, and it was
\* exported ahead of the second record, whose key occurs later than the first record's.
C12_Witness ==
    /\ Exported /\ exportConfig.deduplicate
    /\ Len(repo.apps) = 3
    /\ KeyOf(repo.apps[1]) = KeyOf(repo.apps[3])
    /\ KeyOf(repo.apps[1]) # KeyOf(repo.apps[2])
    /\ ExportedIds = <<repo.apps[3].id, repo.apps[2].id>>

\* the position in repo.apps of the record behind the k-th exported element
PositionOf(k) == CHOOSE i \in DOMAIN repo.apps : repo.apps[i].id = finalRepo.apps[k].id

\* no record that reaches the deduplicator ahead of position i has the key of record i
FirstOfItsKey(i) ==
    LET cand == Candidates(repo.apps, exportConfig)
    IN  \A c \in DOMAIN cand :
            KeyOf(repo.apps[cand[c]]) = KeyOf(repo.apps[i]) => i <= cand[c]

\* C13 as stated: whatever the configuration, the exported records are an
\* order-preserving sub-list of repo.apps: any two of them stand in the order they have
\* in the input.
C13_OrderPreserved ==
    Exported =>
        \A k1, k2 \in DOMAIN finalRepo.apps :
            k1 < k2 => PositionOf(k1) < PositionOf(k2)

\* C13 amended: any two exported records stand in the order they have in the input,
\* unless deduplication is on and one of them replaced an earlier record of its key (it
\* then stands where its key first occurred).
C13_OrderPreservedAmended ==
    Exported =>
        \A k1, k2 \in DOMAIN finalRepo.apps :
            (/\ k1 < k2
             /\ exportConfig.deduplicate =>
                    FirstOfItsKey(PositionOf(k1)) /\ FirstOfItsKey(PositionOf(k2)))
                => PositionOf(k1) < PositionOf(k2)

\* C13 witness: with both stages on, the first and the last of three records were
\* exported in their input order, the flagged record between them was dropped, and
\* each exported record is the only one of its key.
C13_Witness ==
    /\ Exported /\ exportConfig.deduplicate /\ exportConfig.filterIncompatible
    /\ Len(repo.apps) = 3
    /\ Flagged(repo.apps[2])
    /\ KeyOf(repo.apps[1]) # KeyOf(repo.apps[3])
    /\ ExportedIds = <<repo.apps[1].id, repo.apps[3].id>>

\* the status of a record, "absent" when it carries none
StatusOf(app) == IF HasStatus(app) THEN app.compatibilityStatus ELSE "absent"

\* C14: with filterIncompatible enabled a record is dropped by the filter exactly when
\* its status is jailbreak_only, trollstore_only or jit_required: no such record is
\* exported, every record that is safe, unknown or without status reaches the
\* deduplicator, and with deduplicate off the export is those records in their input order.
C14_FilterDropsExactlyFlagged ==
    (Exported /\ exportConfig.filterIncompatible) =>
        /\ \A i \in DOMAIN repo.apps :
              IF StatusOf(repo.apps[i]) \in {"jailbreak_only", "trollstore_only", "jit_required"}
              THEN i \notin KeptPositions
              ELSE \E k \in DOMAIN finalRepo.apps :
                        KeyOf(finalRepo.apps[k]) = KeyOf(repo.apps[i])
        /\ ~exportConfig.deduplicate =>
              LET kept == SelectSeq(repo.apps,
                              LAMBDA a : StatusOf(a) \in {"safe", "unknown", "absent"})
              IN  ExportedIds = [k \in DOMAIN kept |-> kept[k].id]

\* C14 witness: the list [safe, jailbreak_only, unknown] was exported with the filter on
\* and deduplication off as [safe, unknown].
C14_Witness ==
    /\ Exported /\ exportConfig.filterIncompatible /\ ~exportConfig.deduplicate
    /\ Len(repo.apps) = 3
    /\ [i \in 1..3 |-> StatusOf(repo.apps[i])] = <<"safe", "jailbreak_only", "unknown">>
    /\ ExportedIds = <<repo.apps[1].id, repo.apps[3].id>>

\* the positions of all records of a key, flagged or not, in list order
AllOfKey(apps, key) ==
    SelectSeq([i \in DOMAIN apps |-> i], LAMBDA i : KeyOf(apps[i]) = key)

\* C15: a disabled stage passes its input through. With filterIncompatible off no record
\* is removed for its status: flagged records reach the deduplicator and are exported
\* whenever they win their key over all records of the list. With deduplicate off no
\* record is removed for sharing a key: the export is, record for record and in the same
\* order, the list the filter stage handed on.
C15_DisabledStagePassesThrough ==
    Exported =>
        /\ (~exportConfig.filterIncompatible /\ exportConfig.deduplicate) =>
              \A i \in DOMAIN repo.apps :
                  i \in KeptPositions
                      <=> i = WinnerOf(repo.apps, AllOfKey(repo.apps, KeyOf(repo.apps[i])))
        /\ ~exportConfig.deduplicate =>
              /\ Len(finalRepo.apps) = Len(Candidates(repo.apps, exportConfig))
              /\ \A k \in DOMAIN finalRepo.apps :
                    PositionOf(k) = Candidates(repo.apps, exportConfig)[k]
        /\ (~exportConfig.filterIncompatible /\ ~exportConfig.deduplicate) =>
              /\ Len(finalRepo.apps) = Len(repo.apps)
              /\ \A k \in DOMAIN finalRepo.apps : PositionOf(k) = k

\* C15 witness: with the filter off and deduplication on, a flagged record won its key
\* over a record marked safe and was exported; the safe record was not.
C15_Witness ==
    /\ Exported /\ ~exportConfig.filterIncompatible /\ exportConfig.deduplicate
    /\ \E i \in KeptPositions, j \in DOMAIN repo.apps \ KeptPositions :
          /\ Flagged(repo.apps[i])
          /\ StatusOf(repo.apps[j]) = "safe"
          /\ KeyOf(repo.apps[i]) = KeyOf(repo.apps[j])

\* the call under observation has returned
Returned == returned # NoResult

\* the numeric segments of a version string, read off in one pass: characters other than
\* digits and dots are skipped, a dot ends the segment, a segment without digits is dropped
RECURSIVE ScanSegments(_, _, _)
ScanSegments(s, cur, acc) ==
    IF s = <<>> THEN acc \o cur
    ELSE IF Head(s) = "." THEN ScanSegments(Tail(s), <<>>, acc \o cur)
    ELSE IF \E d \in 0..9 : DigitChars[d + 1] = Head(s)
         THEN LET d == CHOOSE d \in 0..9 : DigitChars[d + 1] = Head(s)
                  sofar == IF cur = <<>> THEN 0 ELSE cur[1]
              IN  ScanSegments(Tail(s), <<10 * sofar + d>>, acc)
         ELSE ScanSegments(Tail(s), cur, acc)

SegmentsOf(v) == ScanSegments(v, <<>>, <<>>)

\* the p-th segment, 0 where the sequence has ended
SegmentAt(n, p) == IF p <= Len(n) THEN n[p] ELSE 0

\* 1 or -1 by the first position where the two sequences differ, 0 when none does
BySegments(n1, n2) ==
    LET len == IF Len(n1) >= Len(n2) THEN Len(n1) ELSE Len(n2)
        differ == {p \in 1..len : SegmentAt(n1, p) # SegmentAt(n2, p)}
    IN  IF differ = {} THEN 0
        ELSE LET first == CHOOSE p \in differ : \A q \in differ : p <= q
             IN  IF SegmentAt(n1, first) > SegmentAt(n2, first) THEN 1 ELSE -1

\* C16: when at least one argument yields a numeric segment, compareVersions returns 1
\* or -1 by the first position at which the two sequences of numeric segments differ, a
\* missing position read as 0, and 0 when no position differs; so '1.0' against '1.0.0'
\* is 0, '2.0' against '1.9' is 1 and '1.9' against '2.0' is -1.
C16_NumericComparison ==
    Returned =>
        /\ (SegmentsOf(versions[1]) # <<>> \/ SegmentsOf(versions[2]) # <<>>) =>
              returned[1] = BySegments(SegmentsOf(versions[1]), SegmentsOf(versions[2]))
        /\ versions = << <<"1",".","0">>, <<"1",".","0",".","0">> >> => returned[1] = 0
        /\ versions = << <<"2",".","0">>, <<"1",".","9">> >> => returned[1] = 1
        /\ versions = << <<"1",".","9">>, <<"2",".","0">> >> => returned[1] = -1

\* C16 witness: '1.0' was compared with '1.0.1', the longer argument won on its third
\* segment, and the call returned -1.
C16_Witness ==
    /\ versions = << <<"1",".","0">>, <<"1",".","0",".","1">> >>
    /\ returned = <<-1>>

\* C17: compareVersions(x, x) is 0 for every string x: numeric or not, with or without a
\* v prefix or surrounding white space, the empty string included.
C17_Reflexive ==
    (Returned /\ versions[1] = versions[2]) => returned[1] = 0

\* C17 witness: ' vbeta', a version without digits that has a blank and a v prefix, was
\* compared with itself and the call returned 0.
C17_Witness ==
    /\ versions[1] = <<" ","v","b","e","t","a">>
    /\ versions[2] = versions[1]
    /\ returned = <<0>>

\* a string without the white space around it
StripSpaces(v) ==
    LET inked == {i \in DOMAIN v : v[i] \notin WhiteSpace}
    IN  IF inked = {} THEN <<>>
        ELSE SubSeq(v, CHOOSE i \in inked : \A j \in inked : i <= j,
                       CHOOSE i \in inked : \A j \in inked : i >= j)

\* a string without one leading v or V
StripPrefix(s) ==
    IF s # <<>> /\ s[1] \in {"v", "V"} THEN SubSeq(s, 2, Len(s)) ELSE s

\* what is left of a version once the white space around it and one leading v are
\* removed, white space between the v and the rest included
Bare(v) == StripSpaces(StripPrefix(StripSpaces(v)))

\* C18: compareVersions ignores the white space around each argument and one leading v
\* or V: two strings that are identical once both are removed compare as 0, whether or
\* not they hold digits.
C18_PrefixAndSpaceIgnored ==
    (Returned /\ Bare(versions[1]) = Bare(versions[2])) => returned[1] = 0

\* dictionary order of two strings: -1, 0 or 1 by the first position where they differ,
\* a string sorting before its proper extensions
RECURSIVE Lexicographic(_, _)
Lexicographic(s1, s2) ==
    IF s1 = <<>> THEN (IF s2 = <<>> THEN 0 ELSE -1)
    ELSE IF s2 = <<>> THEN 1
    ELSE IF s1[1] = s2[1] THEN Lexicographic(SubSeq(s1, 2, Len(s1)), SubSeq(s2, 2, Len(s2)))
    ELSE IF Rank(s1[1]) < Rank(s2[1]) THEN -1
    ELSE 1

\* C19: compareVersions answers by the dictionary order of the cleaned strings (prefix
\* and white space removed, everything else kept) exactly when the cleaned strings differ
\* and neither has a numeric segment; in every other case the answer is 0 for identical
\* cleaned strings and the comparison of the numeric segments otherwise.
C19_LexicographicFallback ==
    Returned =>
        LET b1 == Bare(versions[1])
            b2 == Bare(versions[2])
        IN  IF b1 # b2 /\ SegmentsOf(b1) = <<>> /\ SegmentsOf(b2) = <<>>
            THEN returned[1] = Lexicographic(b1, b2)
            ELSE IF b1 = b2 THEN returned[1] = 0
            ELSE returned[1] = BySegments(SegmentsOf(b1), SegmentsOf(b2))

\* a version with at least one numeric segment other than 0
HasNonZeroSegment(v) == \E p \in DOMAIN SegmentsOf(v) : SegmentsOf(v)[p] # 0

\* C20: when exactly one argument has no numeric segment, the other one wins if it has a
\* segment other than 0 (1 when it is the left argument, -1 when it is the right one)
\* and the result is 0 if all its segments are 0; so of two records of one key, one with
\* a purely alphabetic version and one with a numeric version that has a non-zero
\* segment, deduplication exports the numeric one, whichever comes first.
C20_NumericBeatsAlphabetic ==
    LET n1 == SegmentsOf(versions[1])
        n2 == SegmentsOf(versions[2])
    IN  /\ (Returned /\ n1 # <<>> /\ n2 = <<>>) =>
              returned[1] = IF HasNonZeroSegment(versions[1]) THEN 1 ELSE 0
        /\ (Returned /\ n1 = <<>> /\ n2 # <<>>) =>
              returned[1] = IF HasNonZeroSegment(versions[2]) THEN -1 ELSE 0
        /\ (Exported /\ exportConfig.deduplicate /\ repo = PairRepo(versions)) =>
              /\ (n2 = <<>> /\ HasNonZeroSegment(versions[1])) =>
                    ExportedIds = <<repo.apps[1].id>>
              /\ (n1 = <<>> /\ HasNonZeroSegment(versions[2])) =>
                    ExportedIds = <<repo.apps[2].id>>

\* C20 witness: 'beta' against '1.0' returned -1, and of the two records of one key the
\* later one, version '1.0', replaced the earlier one, version 'beta', in the export.
C20_Witness ==
    /\ versions = << <<"b","e","t","a">>, <<"1",".","0">> >>
    /\ returned = <<-1>>
    /\ Exported
    /\ Len(finalRepo.apps) = 1
    /\ finalRepo.apps[1].version = <<"1",".","0">>

\* App's includedIds: new Set(filteredExportApps.map(a => a.id)); a card whose id is not
\* in it carries the EXCLUDED badge
includedIds ==
    LET filteredExportApps == getFilteredApps(repo.apps, AppExportConfig)
    IN  {repo.apps[filteredExportApps[k]].id : k \in DOMAIN filteredExportApps}

\* C26: whenever the publish dialog exports the document, the ids written to the manifest
\* are exactly the ids the editor shows as not excluded, whatever toggles were made in
\* the dialog.
C26_ExcludedAgreesWithPublished ==
    Exported => {ExportedIds[k] : k \in DOMAIN ExportedIds} = includedIds

\* C25: compareVersions is transitive, equality included: whenever a compares >= 0 with
\* b and b compares >= 0 with c, a compares >= 0 with c, and whenever a, b and b, c
\* compare as 0, so do a, c, for numeric, all-zero and purely alphabetic versions alike.
C25_Transitive ==
    (Returned /\ Len(versions) = 3) =>
        /\ (returned[1] >= 0 /\ returned[2] >= 0) => returned[3] >= 0
        /\ (returned[1] = 0 /\ returned[2] = 0) => returned[3] = 0

\* C23: for every deployment of the history, with id G, an update whose target field
\* holds G, the deployment's raw URL or the gist's page URL is a PATCH to gists/G.
C23_HandleReused ==
    \A r \in requests, k \in DOMAIN dialog.history :
        LET d == dialog.history[k]
        IN  (r.isUpdate /\ r.targetGistId \in {d.id, d.url, PageUrl(d.id)})
                => r.gistId = d.id

\* C24: the step in which a create deployment succeeds leaves the dialog in update mode
\* with the id of the new gist, the first entry of the history, as the target.
C24_SwitchesToUpdate ==
    [][(/\ dialog.loading /\ ~dialog'.loading
        /\ dialog'.successMsg = "New server deployed successfully!")
           => (/\ dialog'.mode = "update"
               /\ dialog'.targetGistId = dialog'.history[1].id)]_vars

\* C27: the dialog never shows an error message and a success message at the same time.
C27_ErrorAndSuccessExclusive ==
    ~(dialog.error # "null" /\ dialog.successMsg # "null")

\* a step in which the dialog comes to show an error
ShowsError == dialog'.error # "null" /\ dialog'.error # dialog.error

\* the two messages of processDeploy's validation
ValidationErrors ==
    {"GitHub Personal Access Token is required.",
     "Could not extract a valid Gist ID from the input."}

\* C28: a step that makes the dialog show an error leaves the history, the persisted
\* history and the target unchanged and ends with loading false; when the error is one
\* of the two validation messages, loading was false before it and no request is sent;
\* and no step leaves more than one publish request unanswered.
C28_FailureLeavesState ==
    [][/\ ShowsError =>
            /\ dialog'.history = dialog.history
            /\ storage'.deploy_history = storage.deploy_history
            /\ dialog'.targetGistId = dialog.targetGistId
            /\ ~dialog'.loading
            /\ dialog'.error \in ValidationErrors => (~dialog.loading /\ requests' = requests)
       /\ Cardinality(requests') <= 1]_vars

\* no two entries of a history have the same gist id
DistinctGists(history) ==
    \A i, j \in DOMAIN history : history[i].id = history[j].id => i = j

\* a step in which the dialog comes to show a success message
ShowsSuccess == dialog'.successMsg # "null" /\ dialog'.successMsg # dialog.successMsg

\* C29: after every step the history has pairwise distinct gist ids and, while the dialog
\* is open, is the list persisted under 'deploy_history'; a step that makes the dialog show
\* a success leaves the deployed gist's entry first, followed by the entries the history
\* had before for other gists, in their order.
C29_HistoryNewestFirst ==
    [][/\ DistinctGists(dialog'.history)
       /\ showPublishModal' => dialog'.history = storage'.deploy_history
       /\ ShowsSuccess =>
            /\ dialog'.history # <<>>
            /\ Tail(dialog'.history) =
                  SelectSeq(dialog.history, LAMBDA h : h.id # dialog'.history[1].id)]_vars

\* the records of a list have pairwise distinct ids
DistinctIds(apps) == \A i, j \in DOMAIN apps : apps[i].id = apps[j].id => i = j

\* a step of the editor that appends one record to the list
Appends ==
    /\ previewRepo' = previewRepo
    /\ Len(repo'.apps) = Len(repo.apps) + 1
    /\ SubSeq(repo'.apps, 1, Len(repo.apps)) = repo.apps

\* C21: after every step of the editor (add, smart import, manifest import, update, scan
\* update, delete) the records of repo.apps have pairwise distinct ids, and a record that
\* a step appends carries an id generated in that step, one that no record had before.
C21_IdsUnique ==
    [][/\ DistinctIds(repo'.apps)
       /\ Appends =>
            /\ generated' = generated + 1
            /\ repo'.apps[Len(repo'.apps)].id = GenId(generated')]_vars

\* the manifest in the text area and the form it holds, itself or its "source"
Pasted == parse(jsonInput)

PastedSource == IF "source" \in DOMAIN Pasted THEN Pasted.source ELSE Pasted

\* the preview of the import modal shows the parsed text
Previewed == previewRepo # NoDoc

\* the field an element list is read from: "apps", else "packages", else none
ListField ==
    IF "apps" \in DOMAIN PastedSource THEN "apps"
    ELSE IF "packages" \in DOMAIN PastedSource THEN "packages" ELSE "none"

ListIsArray ==
    /\ ListField = "apps" => "appsNotArray" \notin DOMAIN PastedSource
    /\ ListField = "packages" => "packagesNotArray" \notin DOMAIN PastedSource

\* what holds of a preview whatever the list is read from: the wrapped form parses as
\* the form inside it, and the defaults of name, tint, size, status and screenshots
PreviewDefaults ==
    /\ previewRepo = processParsing(PastedSource, generated - IdsGiven(Pasted))
    /\ "name" \notin DOMAIN PastedSource => previewRepo.name = "Imported Repo"
    /\ "tintColor" \notin DOMAIN PastedSource => previewRepo.tintColor = "#3b82f6"
    /\ \A i \in DOMAIN previewRepo.apps : previewRepo.apps[i].compatibilityStatus = "unknown"
    /\ (ListField # "none" /\ ListIsArray) =>
          LET rawApps == PastedSource[ListField]
          IN  /\ Len(previewRepo.apps) = Len(rawApps)
              /\ \A i \in DOMAIN rawApps :
                    /\ "size" \notin DOMAIN rawApps[i] => previewRepo.apps[i].size = 0
                    /\ ("screenshotURLs" \notin DOMAIN rawApps[i]
                          \/ "screenshotURLsNotArray" \in DOMAIN rawApps[i])
                       => previewRepo.apps[i].screenshotURLs = <<>>

PastedIsExport ==
    /\ clipboard # NoDoc
    /\ jsonInput \in {clipboard, stringify([source |-> parse(clipboard)])}

RepoTextFields ==
    {"name", "subtitle", "description", "iconURL", "headerImageURL", "website", "tintColor"}

AppTextFields ==
    {"id", "developerName", "versionDate", "versionDescription", "downloadURL",
     "localizedDescription", "iconURL", "tintColor", "category"}

AppStringFields == {"name", "bundleIdentifier", "version"}

\* every text field of the manifest and of its apps is there and not empty
AllTextNonEmpty(doc) ==
    /\ \A f \in RepoTextFields : doc[f] # ""
    /\ \A i \in DOMAIN doc.apps :
          /\ \A f \in AppTextFields : f \in DOMAIN doc.apps[i] /\ doc.apps[i][f] # ""
          /\ \A f \in AppStringFields : f \in DOMAIN doc.apps[i] /\ doc.apps[i][f] # <<>>

\* the fields of an exported element that C30 lists
PublishedFields == AppTextFields \cup AppStringFields \cup {"size", "screenshotURLs"}

\* C30: when the text area holds a manifest the editor copied, none of whose text fields
\* is empty, the preview has the manifest's repository fields and, for each app in the
\* same order, the same id, name, bundleIdentifier, developerName, version, versionDate,
\* versionDescription, downloadURL, localizedDescription, iconURL, tintColor, size,
\* category and screenshotURLs.
C30_ExportImportRoundTrip ==
    (Previewed /\ PastedIsExport /\ AllTextNonEmpty(PastedSource)) =>
        /\ \A f \in RepoTextFields : previewRepo[f] = PastedSource[f]
        /\ Len(previewRepo.apps) = Len(PastedSource.apps)
        /\ \A i \in DOMAIN PastedSource.apps : \A f \in PublishedFields :
              /\ f \in DOMAIN previewRepo.apps[i]
              /\ previewRepo.apps[i][f] = PastedSource.apps[i][f]

====
